---- MODULE Spec2Model ----
\* ArgOpts command-line option parser: the Parser registry, Parser::parse and
\* the StringStore conversions, modelled from the header of the repository.
\* Text is modelled as a sequence of bytes (numbers 1..255); a C string's
\* terminating NUL is the byte read one past the end of the sequence.
EXTENDS Integers, Sequences, FiniteSets, TLC

VARIABLES options, argv, options_found, raised, called, store, outcome

vars == <<options, argv, options_found, raised, called, store, outcome>>

-----------------------------------------------------------------------------
\* Bounds of the model

\* The number of tokens that follow argv[0] in an argument vector.
MaxArgs == 2

\* The number of declared options a registry holds.
MaxOptions == 2

\* The length of the generated StringStore payloads.
MaxLen == 3

-----------------------------------------------------------------------------
\* Characters and strings

\* '-', the flag marker
Dash == 45

\* The terminator of a C string
NUL == 0

\* "somecode", "value", "thing", "42", "3.1415", "flibble", "sometext42"
\* and the UTF-8 bytes of three CJK characters
S_somecode == <<115, 111, 109, 101, 99, 111, 100, 101>>
S_value == <<118, 97, 108, 117, 101>>
S_thing == <<116, 104, 105, 110, 103>>
S_42 == <<52, 50>>
S_pi == <<51, 46, 49, 52, 49, 53>>
S_flibble == <<102, 108, 105, 98, 98, 108, 101>>
S_sometext42 == <<115, 111, 109, 101, 116, 101, 120, 116, 52, 50>>
S_cjk == <<229, 164, 167, 229, 174, 182, 229, 165, 189>>

\* s[k] of a C string: the byte at 0-based position k, NUL at the end
CharAt(s, k) == IF k < Len(s) THEN s[k + 1] ELSE NUL

\* std::isdigit in the "C" locale: '0'..'9'
isdigit(ch) == ch \in 48..57

\* std::isspace in the "C" locale: space, \t, \n, \v, \f, \r
isspace(ch) == ch \in {32, 9, 10, 11, 12, 13}

Min(S) == CHOOSE x \in S : \A y \in S : x <= y

\* All sequences over S of length 0..n
RECURSIVE SeqsUpTo(_, _)
SeqsUpTo(S, n) ==
  IF n = 0 THEN {<<>>}
  ELSE LET shorter == SeqsUpTo(S, n - 1)
       IN shorter \cup {Append(s, x) : s \in {t \in shorter : Len(t) = n - 1}, x \in S}

-----------------------------------------------------------------------------
\* StringStore and Option

\* The callbacks a StringStore can hold: none (empty std::function), the
\* OptionErrorHandler bound by Parser::parse, or a caller's handler that
\* returns normally.
Handlers == {"none", "OptionErrorHandler", "returns"}

\* StringStore(value, handler)
StringStore(value, handler) == [value |-> value, handler |-> handler]

\* Option(shortopt, longopt, help, index): arg is a default StringStore
Option(shortopt, longopt, help, index) ==
  [shortopt |-> shortopt, longopt |-> longopt, help |-> help, index |-> index,
   arg |-> StringStore(<<>>, "none")]

-----------------------------------------------------------------------------
\* Option::usage

\* std::string(1, shortopt): the char32_t is converted to one char, which
\* keeps its low 8 bits
NarrowToChar(c) == c % 256

\* usage(): "-c", ", ", "--longopt" and "\t\t" + help, each when present
usage(option) ==
  (IF option.shortopt # 0
     THEN <<Dash, NarrowToChar(option.shortopt)>>
          \o (IF Len(option.longopt) # 0 THEN <<44, 32>> ELSE <<>>)
     ELSE <<>>)
  \o (IF Len(option.longopt) # 0 THEN <<Dash, Dash>> \o option.longopt ELSE <<>>)
  \o (IF Len(option.help) # 0 THEN <<9, 9>> \o option.help ELSE <<>>)

-----------------------------------------------------------------------------
\* StringStore::get<T>

\* The types a cell is converted to
Types == {"int", "double", "string"}

\* OptionErrorHandler, were it to report every failure as a missing argument
OptionErrorHandler_AlwaysMissing(value, type_name, text) ==
  [kind |-> "Missing argument", type |-> type_name, raw |-> <<>>,
   usage |-> text, val |-> <<>>]

\* OptionErrorHandler::operator(): always throws std::invalid_argument,
\* "Missing argument, expected type T" for an empty value and
\* "Invalid argument: expected type T but got 'value'" otherwise, both
\* followed by the usage of the option
OptionErrorHandler(value, type_name, text) ==
  IF Len(value) = 0
    THEN [kind |-> "Missing argument", type |-> type_name, raw |-> <<>>,
          usage |-> text, val |-> <<>>]
    ELSE [kind |-> "Invalid argument", type |-> type_name, raw |-> value,
          usage |-> text, val |-> <<>>]

\* handleError, were the handler of the cell not called
handleError_NoHandler(cell, type_name, text) ==
  [kind |-> "could not convert", type |-> type_name, raw |-> cell.value,
   usage |-> <<>>, val |-> <<>>]

\* handleError(type_name): the handler throws, or else (no handler, or one
\* that returns) the cell throws "could not convert 'value' to T"
handleError(cell, type_name, text) ==
  IF cell.handler = "OptionErrorHandler"
    THEN OptionErrorHandler(cell.value, type_name, text)
    ELSE [kind |-> "could not convert", type |-> type_name, raw |-> cell.value,
          usage |-> <<>>, val |-> <<>>]

\* The value returned by a conversion that succeeds
Returned(type_name, v) ==
  [kind |-> "value", type |-> type_name, raw |-> <<>>, usage |-> <<>>, val |-> v]

IsSign(ch) == ch \in {43, 45}

\* IntDigit, were each digit to replace the number read so far
IntDigit_LastOnly(st, d) ==
  [st EXCEPT !.phase = "digits", !.ndig = @ + 1, !.acc = 0 - d]

\* One more digit d of an int. The digits are accumulated as a negative
\* number so that the smallest int, -2147483648, is reached without passing
\* the largest; overflow is set when the int cannot hold the number.
IntDigit(st, d) ==
  IF st.overflow \/ st.acc < -214748364
       \/ (st.acc = -214748364 /\ d > (IF st.neg THEN 8 ELSE 7))
    THEN [st EXCEPT !.phase = "digits", !.ndig = @ + 1, !.overflow = TRUE]
    ELSE [st EXCEPT !.phase = "digits", !.ndig = @ + 1, !.acc = @ * 10 - d]

\* The extraction of an int from the byte at position p (1-based) on: white
\* space is skipped, then an optional sign and the digits are read. eof: the
\* end of the text was reached; pos: the next byte to read.
RECURSIVE ScanInt(_, _, _)
ScanInt(s, p, st) ==
  IF p > Len(s) THEN [st EXCEPT !.eof = TRUE, !.pos = p]
  ELSE IF st.phase = "space" /\ isspace(s[p]) THEN ScanInt(s, p + 1, st)
  ELSE IF st.phase = "space" /\ IsSign(s[p])
    THEN ScanInt(s, p + 1, [st EXCEPT !.phase = "digits", !.neg = (s[p] = 45)])
  ELSE IF isdigit(s[p]) THEN ScanInt(s, p + 1, IntDigit(st, s[p] - 48))
  ELSE [st EXCEPT !.pos = p]

\* ss >> t for an int. fail: failbit, set when no digit was read or the
\* number does not fit; val: the int.
ExtractInt(s) ==
  LET st == ScanInt(s, 1, [phase |-> "space", neg |-> FALSE, acc |-> 0, ndig |-> 0,
                           overflow |-> FALSE, eof |-> FALSE, pos |-> 1])
  IN [fail |-> st.ndig = 0 \/ st.overflow, eof |-> st.eof, pos |-> st.pos,
      val |-> IF st.neg THEN st.acc ELSE 0 - st.acc]

\* A decimal number, minus when neg, mant * 10^exp10: mant is the sequence of
\* its digits, kept without a leading or a trailing zero so that a number of
\* any length has one form
RECURSIVE Decimal(_, _, _)
Decimal(neg, mant, exp10) ==
  IF mant = <<>> THEN [neg |-> neg, mant |-> <<>>, exp10 |-> 0]
  ELSE IF mant[Len(mant)] = 0
    THEN Decimal(neg, SubSeq(mant, 1, Len(mant) - 1), exp10 + 1)
  ELSE [neg |-> neg, mant |-> mant, exp10 |-> exp10]

\* One more digit d of the digits of a double
DoubleDigit(mant, d) == IF mant = <<>> /\ d = 0 THEN <<>> ELSE Append(mant, d)

\* The extraction of a double from the byte at position p on: white space,
\* an optional sign, digits, an optional '.' and digits, and after a digit an
\* optional exponent: 'e' or 'E', an optional sign, digits.
RECURSIVE ScanDouble(_, _, _)
ScanDouble(s, p, st) ==
  IF p > Len(s) THEN [st EXCEPT !.eof = TRUE, !.pos = p]
  ELSE IF st.phase = "space" /\ isspace(s[p]) THEN ScanDouble(s, p + 1, st)
  ELSE IF st.phase = "space" /\ IsSign(s[p])
    THEN ScanDouble(s, p + 1, [st EXCEPT !.phase = "int", !.neg = (s[p] = 45)])
  ELSE IF st.phase \in {"space", "int"} /\ isdigit(s[p])
    THEN ScanDouble(s, p + 1, [st EXCEPT !.phase = "int", !.ndig = @ + 1,
                                         !.mant = DoubleDigit(@, s[p] - 48)])
  ELSE IF st.phase \in {"space", "int"} /\ s[p] = 46
    THEN ScanDouble(s, p + 1, [st EXCEPT !.phase = "frac"])
  ELSE IF st.phase = "frac" /\ isdigit(s[p])
    THEN ScanDouble(s, p + 1, [st EXCEPT !.ndig = @ + 1, !.scale = @ + 1,
                                         !.mant = DoubleDigit(@, s[p] - 48)])
  ELSE IF st.phase \in {"int", "frac"} /\ s[p] \in {69, 101} /\ st.ndig > 0
    THEN ScanDouble(s, p + 1, [st EXCEPT !.phase = "expsign"])
  ELSE IF st.phase = "expsign" /\ IsSign(s[p])
    THEN ScanDouble(s, p + 1, [st EXCEPT !.phase = "exp", !.eneg = (s[p] = 45)])
  ELSE IF st.phase \in {"expsign", "exp"} /\ isdigit(s[p])
    THEN ScanDouble(s, p + 1, [st EXCEPT !.phase = "exp", !.nexp = @ + 1,
                                         !.exp = @ * 10 + (s[p] - 48)])
  ELSE [st EXCEPT !.pos = p]

\* ss >> t for a double. fail: no digit was read, or the exponent has no
\* digit; val: the number read.
ExtractDouble(s) ==
  LET st == ScanDouble(s, 1, [phase |-> "space", neg |-> FALSE, mant |-> <<>>, scale |-> 0,
                              ndig |-> 0, eneg |-> FALSE, exp |-> 0, nexp |-> 0,
                              eof |-> FALSE, pos |-> 1])
  IN [fail |-> st.ndig = 0 \/ (st.phase \in {"expsign", "exp"} /\ st.nexp = 0),
      eof |-> st.eof, pos |-> st.pos,
      val |-> Decimal(st.neg, st.mant,
                      (IF st.eneg THEN 0 - st.exp ELSE st.exp) - st.scale)]

\* The position of the first '\n' of s at or after p, Len(s) + 1 if none
RECURSIVE FindNewline(_, _)
FindNewline(s, p) ==
  IF p <= Len(s) /\ s[p] # 10 THEN FindNewline(s, p + 1) ELSE p

\* std::getline(ss, remainder) after the extraction ss: nothing when the
\* stream is no longer good (eofbit), else the bytes up to the first '\n'
getline(s, ss) ==
  IF ss.fail \/ ss.eof THEN <<>>
  ELSE SubSeq(s, ss.pos, FindNewline(s, ss.pos) - 1)

\* get, were it to leave out the check for an empty value
get_NoEmptyCheck(cell, T, text) ==
  IF T = "string" THEN Returned(T, cell.value)
  ELSE LET ss == IF T = "int" THEN ExtractInt(cell.value) ELSE ExtractDouble(cell.value)
           remainder == getline(cell.value, ss)
       IN IF ss.fail THEN handleError(cell, T, text)
          ELSE IF \E k \in 1..Len(remainder) : ~isspace(remainder[k])
            THEN handleError(cell, T, text)
          ELSE Returned(T, ss.val)

\* get, were a string extracted from the stream as the other types are: the
\* first word of the value, and nothing but white space after it
get_StringExtracted(cell, T, text) ==
  IF Len(cell.value) = 0 THEN handleError(cell, T, text)
  ELSE IF T = "string"
    THEN LET n == Len(cell.value)
             first == Min({k \in 1..(n + 1) : k > n \/ ~isspace(cell.value[k])})
             stop == Min({k \in first..(n + 1) : k > n \/ isspace(cell.value[k])})
         IN IF first > n \/ \E k \in stop..n : ~isspace(cell.value[k])
              THEN handleError(cell, T, text)
              ELSE Returned(T, SubSeq(cell.value, first, stop - 1))
  ELSE LET ss == IF T = "int" THEN ExtractInt(cell.value) ELSE ExtractDouble(cell.value)
           remainder == getline(cell.value, ss)
       IN IF ss.fail THEN handleError(cell, T, text)
          ELSE IF \E k \in 1..Len(remainder) : ~isspace(remainder[k])
            THEN handleError(cell, T, text)
          ELSE Returned(T, ss.val)

\* get<T>() of a cell; text is the usage of the option the cell's
\* OptionErrorHandler refers to
get(cell, T, text) ==
  IF Len(cell.value) = 0 THEN handleError(cell, T, text)
  ELSE IF T = "string" THEN Returned(T, cell.value)
  ELSE LET ss == IF T = "int" THEN ExtractInt(cell.value) ELSE ExtractDouble(cell.value)
           remainder == getline(cell.value, ss)
       IN IF ss.fail THEN handleError(cell, T, text)
          ELSE IF \E k \in 1..Len(remainder) : ~isspace(remainder[k])
            THEN handleError(cell, T, text)
          ELSE Returned(T, ss.val)

-----------------------------------------------------------------------------
\* UTF-8 to UTF-32, std::wstring_convert<std::codecvt_utf8<char32_t>>::from_bytes

\* The length of the UTF-8 sequence a lead byte announces, 0 for a byte that
\* cannot start a sequence (a continuation byte, an overlong lead, 0xF5..0xFF)
Utf8Len(c1) ==
  IF c1 < 128 THEN 1
  ELSE IF c1 < 194 THEN 0
  ELSE IF c1 < 224 THEN 2
  ELSE IF c1 < 240 THEN 3
  ELSE IF c1 < 245 THEN 4
  ELSE 0

IsCont(b) == b \in 128..191

\* The sequence of n bytes at the head of s is well formed
Utf8WellFormed(s, n) ==
  /\ \A k \in 2..n : IsCont(s[k])
  /\ (n = 3 /\ s[1] = 224) => s[2] >= 160
  /\ (n = 4 /\ s[1] = 240) => s[2] >= 144
  /\ (n = 4 /\ s[1] = 244) => s[2] < 144

\* The code point of the well-formed sequence of n bytes at the head of s
Utf8CodePoint(s, n) ==
  IF n = 1 THEN s[1]
  ELSE IF n = 2 THEN (s[1] - 192) * 64 + (s[2] - 128)
  ELSE IF n = 3 THEN (s[1] - 224) * 4096 + (s[2] - 128) * 64 + (s[3] - 128)
  ELSE (s[1] - 240) * 262144 + (s[2] - 128) * 4096 + (s[3] - 128) * 64 + (s[4] - 128)

\* What a build does with a sequence cut short by the end of the input: the
\* conversion reports an error, or returns the code points decoded so far.
PartialPolicies == {"error", "truncate"}

RECURSIVE Utf8Decode(_, _, _)
Utf8Decode(s, acc, onPartial) ==
  IF s = <<>> THEN [ok |-> TRUE, str |-> acc]
  ELSE LET n == Utf8Len(s[1])
       IN IF n = 0 THEN [ok |-> FALSE, str |-> <<>>]
          ELSE IF Len(s) < n
            THEN IF onPartial = "truncate" THEN [ok |-> TRUE, str |-> acc]
                 ELSE [ok |-> FALSE, str |-> <<>>]
          ELSE IF ~Utf8WellFormed(s, n) THEN [ok |-> FALSE, str |-> <<>>]
          ELSE Utf8Decode(SubSeq(s, n + 1, Len(s)), Append(acc, Utf8CodePoint(s, n)), onPartial)

\* from_bytes, were every byte taken as a character
from_bytes_PerByte(bytes, onPartial) == [ok |-> TRUE, str |-> bytes]

\* from_bytes(bytes): ok = FALSE when it throws std::range_error
from_bytes(bytes, onPartial) == Utf8Decode(bytes, <<>>, onPartial)

-----------------------------------------------------------------------------
\* Parser::parse

\* ArgValue, were it to leave out a next entry that looks like an option
ArgValue_NotAFlag(av, i) ==
  IF i # Len(av) - 1 /\ CharAt(av[i + 2], 0) # Dash THEN av[i + 2] ELSE <<>>

\* The next entry in argv after index i (0-based), empty if none
ArgValue(av, i) == IF i # Len(av) - 1 THEN av[i + 2] ELSE <<>>

\* option.arg = StringStore(argvalue, OptionErrorHandler(option))
AttachArg(option, argvalue) ==
  [option EXCEPT !.arg = StringStore(argvalue, "OptionErrorHandler")]

\* MatchLong, were it to report the name alone, declared or not
MatchLong_NameOnly(opts, found, i) == Option(0, found, <<>>, i)

\* The first declared option whose long name is found, or a new option with
\* the short option set to zero; index is set to i
MatchLong(opts, found, i) ==
  LET hits == {k \in 1..Len(opts) : opts[k].longopt = found}
  IN IF hits # {} THEN [opts[Min(hits)] EXCEPT !.index = i]
     ELSE Option(0, found, <<>>, i)

\* MatchShort, were a character that is not declared reported without it
MatchShort_NoChar(opts, c, i) ==
  LET hits == {k \in 1..Len(opts) : opts[k].shortopt = c}
  IN IF hits # {} THEN [opts[Min(hits)] EXCEPT !.index = i]
     ELSE Option(0, <<>>, <<>>, i)

\* MatchShort, were the last declared option with short option c to win
MatchShort_Last(opts, c, i) ==
  LET hits == {k \in 1..Len(opts) : opts[k].shortopt = c}
  IN IF hits # {} THEN [opts[CHOOSE k \in hits : \A m \in hits : m <= k] EXCEPT !.index = i]
     ELSE Option(c, <<>>, <<>>, i)

\* The first declared option whose short option is c, or a new option with
\* an empty long option; index is set to i
MatchShort(opts, c, i) ==
  LET hits == {k \in 1..Len(opts) : opts[k].shortopt = c}
  IN IF hits # {} THEN [opts[Min(hits)] EXCEPT !.index = i]
     ELSE Option(c, <<>>, <<>>, i)

\* LongOption, were the option pushed twice
LongOption_Twice(opts, av, i) ==
  LET found == SubSeq(av[i + 1], 3, Len(av[i + 1]))
  IN <<AttachArg(MatchLong(opts, found, i), ArgValue(av, i)),
       AttachArg(MatchLong(opts, found, i), ArgValue(av, i))>>

\* The long-option branch for the token at index i: one option
LongOption(opts, av, i) ==
  LET found == SubSeq(av[i + 1], 3, Len(av[i + 1]))
  IN <<AttachArg(MatchLong(opts, found, i), ArgValue(av, i))>>

\* ShortOptions, were it to walk the code points from the last to the first
ShortOptions_Reversed(opts, utf32, av, i) ==
  [k \in 1..Len(utf32) |->
     AttachArg(MatchShort(opts, utf32[Len(utf32) + 1 - k], i), ArgValue(av, i))]

\* ShortOptions, were it to stop after the first code point
ShortOptions_FirstOnly(opts, utf32, av, i) ==
  [k \in 1..(IF Len(utf32) > 0 THEN 1 ELSE 0) |->
     AttachArg(MatchShort(opts, utf32[k], i), ArgValue(av, i))]

\* The short-option branch for the code points utf32 of the token at index i:
\* one option per code point
ShortOptions(opts, utf32, av, i) ==
  [k \in 1..Len(utf32) |-> AttachArg(MatchShort(opts, utf32[k], i), ArgValue(av, i))]

\* Classify, were "--" skipped like "-" instead of ending the loop
Classify_NoStop(tok) ==
  IF CharAt(tok, 0) # Dash THEN "skip"
  ELSE IF CharAt(tok, 1) = NUL THEN "skip"
  ELSE IF isdigit(CharAt(tok, 1)) THEN "skip"
  ELSE IF CharAt(tok, 1) = Dash
    THEN IF CharAt(tok, 2) = NUL THEN "skip" ELSE "long"
  ELSE "short"

\* Classify, were a token without a leading '-' to end the loop
Classify_PlainStops(tok) ==
  IF CharAt(tok, 0) # Dash THEN "stop"
  ELSE IF CharAt(tok, 1) = NUL THEN "skip"
  ELSE IF isdigit(CharAt(tok, 1)) THEN "skip"
  ELSE IF CharAt(tok, 1) = Dash
    THEN IF CharAt(tok, 2) = NUL THEN "stop" ELSE "long"
  ELSE "short"

\* Classify, were the test for a digit left out
Classify_NoDigitTest(tok) ==
  IF CharAt(tok, 0) # Dash THEN "skip"
  ELSE IF CharAt(tok, 1) = NUL THEN "skip"
  ELSE IF CharAt(tok, 1) = Dash
    THEN IF CharAt(tok, 2) = NUL THEN "stop" ELSE "long"
  ELSE "short"

\* What the loop body does with a token: "skip" (continue), "stop" (break),
\* "long" or "short"
Classify(tok) ==
  IF CharAt(tok, 0) # Dash THEN "skip"
  ELSE IF CharAt(tok, 1) = NUL THEN "skip"
  ELSE IF isdigit(CharAt(tok, 1)) THEN "skip"
  ELSE IF CharAt(tok, 1) = Dash
    THEN IF CharAt(tok, 2) = NUL THEN "stop" ELSE "long"
  ELSE "short"

\* ParseLoop, were the entry taken as the arg of an option passed over
RECURSIVE ParseLoop_Consumes(_, _, _, _, _)
ParseLoop_Consumes(opts, av, i, found, onPartial) ==
  IF i >= Len(av) THEN [raised |-> "none", options_found |-> found]
  ELSE LET kind == Classify(av[i + 1])
       IN IF kind = "skip" THEN ParseLoop_Consumes(opts, av, i + 1, found, onPartial)
          ELSE IF kind = "stop" THEN [raised |-> "none", options_found |-> found]
          ELSE IF kind = "long"
            THEN ParseLoop_Consumes(opts, av, i + 2, found \o LongOption(opts, av, i), onPartial)
          ELSE LET utf32 == from_bytes(Tail(av[i + 1]), onPartial)
               IN IF ~utf32.ok THEN [raised |-> "range_error", options_found |-> <<>>]
                  ELSE ParseLoop_Consumes(opts, av, i + 2,
                                          found \o ShortOptions(opts, utf32.str, av, i), onPartial)

\* The loop of parse from index i with the list found so far
RECURSIVE ParseLoop(_, _, _, _, _)
ParseLoop(opts, av, i, found, onPartial) ==
  IF i >= Len(av) THEN [raised |-> "none", options_found |-> found]
  ELSE LET kind == Classify(av[i + 1])
       IN IF kind = "skip" THEN ParseLoop(opts, av, i + 1, found, onPartial)
          ELSE IF kind = "stop" THEN [raised |-> "none", options_found |-> found]
          ELSE IF kind = "long"
            THEN ParseLoop(opts, av, i + 1, found \o LongOption(opts, av, i), onPartial)
          ELSE LET utf32 == from_bytes(Tail(av[i + 1]), onPartial)
               IN IF ~utf32.ok THEN [raised |-> "range_error", options_found |-> <<>>]
                  ELSE ParseLoop(opts, av, i + 1,
                                 found \o ShortOptions(opts, utf32.str, av, i), onPartial)

\* FirstIndex, were the loop to start at the command
FirstIndex_Command == 1 - 1

\* The index the loop of parse starts from
FirstIndex == 1

\* parse(argc, argv): the list returned, or the error raised
parse(opts, av, onPartial) == ParseLoop(opts, av, FirstIndex, <<>>, onPartial)

-----------------------------------------------------------------------------
\* Inputs

\* An argv[0] that looks like an option: "-a"
DashCommand == <<Dash, 97>>

\* The tokens after argv[0]: "-", "--", "-a", "-b", "-ab", "-9", "-a9",
\* "--thing", "--thing=value", "-a=value", "value",
\* "-" + U+00E9, "-" + 0xFF (invalid), "-a" + 0xC3 (a sequence cut short)
Tokens ==
  { <<Dash>>, <<Dash, Dash>>, <<Dash, 97>>, <<Dash, 98>>, <<Dash, 97, 98>>,
    <<Dash, 57>>, <<Dash, 97, 57>>,
    <<Dash, Dash>> \o S_thing, <<Dash, Dash>> \o S_thing \o <<61>> \o S_value,
    <<Dash, 97, 61>> \o S_value, S_value,
    <<Dash, 195, 169>>, <<Dash, 255>>, <<Dash, 97, 195>> }

\* The argument vectors: the empty one (argc = 0), "somecode" followed by up
\* to MaxArgs tokens, and a command that starts with '-' followed by fewer
ArgVectors ==
  {<<>>} \cup {<<S_somecode>> \o rest : rest \in SeqsUpTo(Tokens, MaxArgs)}
         \cup {<<DashCommand>> \o rest : rest \in SeqsUpTo(Tokens, MaxArgs - 1)}

\* The options a caller declares: {'a', "thing", "h"}, {'a', "", "x"},
\* {0, "thing", "y"}
Declarations ==
  { Option(97, S_thing, <<104>>, -1), Option(97, <<>>, <<120>>, -1),
    Option(0, S_thing, <<121>>, -1) }

-----------------------------------------------------------------------------
\* The parser: a registry, an argument vector and the calls on them

\* outcome: the cell converted (of: the position of its option in the
\* returned list, 0 for the cell on its own), the type T asked for, what
\* the conversion gave, and prev, kept for the cell on its own: the type and
\* the kind of outcome of the conversion asked of it just before, "none" if
\* there was none.
\* The outcome is what the last call gave its caller: a call of add or parse
\* leaves none.
NoPrev == [T |-> "none", kind |-> "none"]
NoOutcome == [of |-> 0, T |-> "none", r |-> [kind |-> "none"], prev |-> NoPrev]

\* The conversion before this one, when it was asked of the cell on its own
Prev ==
  IF called = "get" THEN [T |-> outcome.T, kind |-> outcome.r.kind] ELSE NoPrev

Init ==
  /\ options = <<>>
  /\ argv \in ArgVectors
  /\ options_found = <<>>
  /\ raised = "none"
  /\ called = "Parser"
  /\ store = StringStore(<<>>, "none")
  /\ outcome = NoOutcome

\* Parser::add
add ==
  /\ Len(options) < MaxOptions
  /\ \E o \in Declarations : options' = Append(options, o)
  /\ called' = "add"
  /\ outcome' = NoOutcome
  /\ UNCHANGED <<argv, options_found, raised, store>>

\* Parser::parse on the argument vector
Parse ==
  /\ \E onPartial \in PartialPolicies :
       \E r \in {parse(options, argv, onPartial)} :
          /\ options_found' = r.options_found
          /\ raised' = r.raised
  /\ called' = "parse"
  /\ outcome' = NoOutcome
  /\ UNCHANGED <<options, argv, store>>

Next == add \/ Parse

Spec == Init /\ [][Next]_vars

-----------------------------------------------------------------------------
\* A cell on its own: StringStore s(value) and the conversions of s

\* The bytes of the generated payloads: '4', '2', 'a', '.', ' ', \t, \n
PayloadBytes == {52, 50, 97, 46, 32, 9, 10}

\* "-42", and the largest and the smallest int with the numbers next to them
S_neg42 == <<45, 52, 50>>
S_intmax == <<50, 49, 52, 55, 52, 56, 51, 54, 52, 55>>
S_intmin == <<45, 50, 49, 52, 55, 52, 56, 51, 54, 52, 56>>
S_intmax1 == <<50, 49, 52, 55, 52, 56, 51, 54, 52, 56>>
S_intmin1 == <<45, 50, 49, 52, 55, 52, 56, 51, 54, 52, 57>>

\* The payloads: the generated ones, those of the tests, and the numbers
Payloads ==
  SeqsUpTo(PayloadBytes, MaxLen)
    \cup {S_42, S_pi, S_flibble, S_sometext42, S_cjk}
    \cup {S_neg42, S_intmax, S_intmin, S_intmax1, S_intmin1}

InitStore ==
  /\ options = <<>>
  /\ argv = <<>>
  /\ options_found = <<>>
  /\ raised = "none"
  /\ called = "StringStore"
  /\ store \in {StringStore(v, h) : v \in Payloads, h \in {"none", "returns"}}
  /\ outcome = NoOutcome

\* GetStore, were the cell to keep the failure of a conversion as a stream
\* keeps its failbit: every conversion after a failed one fails
GetStore_KeepsFailure ==
  /\ \E T \in Types :
       outcome' = [of |-> 0, T |-> T,
                   r |-> IF Prev.kind \in {"none", "value"}
                           THEN get(store, T, <<>>)
                           ELSE handleError(store, T, <<>>),
                   prev |-> Prev]
  /\ called' = "get"
  /\ UNCHANGED <<options, argv, options_found, raised, store>>

\* s.get<T>() of the cell
GetStore ==
  /\ \E T \in Types :
       outcome' = [of |-> 0, T |-> T, r |-> get(store, T, <<>>), prev |-> Prev]
  /\ called' = "get"
  /\ UNCHANGED <<options, argv, options_found, raised, store>>

NextStore == GetStore

SpecStore == InitStore /\ [][NextStore]_vars

-----------------------------------------------------------------------------
\* The parser and the conversions of the options it returns

\* The tokens after argv[0]: "", "-a", "-ab", "--thing", "42" and
\* "-" + U+00E9
ArgTokens ==
  { <<>>, <<Dash, 97>>, <<Dash, 97, 98>>, <<Dash, Dash>> \o S_thing, S_42,
    <<Dash, 195, 169>> }

ArgArgVectors == {<<S_somecode>> \o rest : rest \in SeqsUpTo(ArgTokens, MaxArgs)}

InitArg ==
  /\ options = <<>>
  /\ argv \in ArgArgVectors
  /\ options_found = <<>>
  /\ raised = "none"
  /\ called = "Parser"
  /\ store = StringStore(<<>>, "none")
  /\ outcome = NoOutcome

\* opt.arg.get<T>() of an option of the returned list
GetArg ==
  /\ \E k \in 1..Len(options_found), T \in Types :
       outcome' = [of |-> k, T |-> T,
                   r |-> get(options_found[k].arg, T, usage(options_found[k])),
                   prev |-> NoPrev]
  /\ called' = "get arg"
  /\ UNCHANGED <<options, argv, options_found, raised, store>>

NextArg == add \/ Parse \/ GetArg \/ GetStore

SpecArg == InitArg /\ [][NextArg]_vars

-----------------------------------------------------------------------------
\* A parser constructed from a list of options, and a caller that changes
\* the options returned

\* The options of the list: {'a', "thing", "h"}, {'a', "", "x"},
\* {'b', "thing", "y"} and one whose short option is a digit,
\* {'9', "value", "d"}
ListDeclarations ==
  { Option(97, S_thing, <<104>>, -1), Option(97, <<>>, <<120>>, -1),
    Option(98, S_thing, <<121>>, -1), Option(57, S_value, <<100>>, -1) }

\* The tokens after argv[0]: "-a", "-b", "--thing", "-9", "-9a", "-a9" and
\* '-' followed by the first two characters of the CJK text, three bytes each
ListTokens ==
  { <<Dash, 97>>, <<Dash, 98>>, <<Dash, Dash>> \o S_thing,
    <<Dash, 57>>, <<Dash, 57, 97>>, <<Dash, 97, 57>>,
    <<Dash>> \o SubSeq(S_cjk, 1, 6) }

ListArgVectors == {<<S_somecode>> \o rest : rest \in SeqsUpTo(ListTokens, MaxArgs)}

\* Parser(std::initializer_list<Option> options)
InitList ==
  /\ options \in SeqsUpTo(ListDeclarations, MaxOptions)
  /\ argv \in ListArgVectors
  /\ options_found = <<>>
  /\ raised = "none"
  /\ called = "Parser"
  /\ store = StringStore(<<>>, "none")
  /\ outcome = NoOutcome

\* The text "z" a caller writes into an option
S_z == <<122>>

\* Modify, were the options of the list references to the declared ones: the
\* declared option with the short option or the long name of the one
\* assigned to changes with it
Modify_Aliased ==
  /\ called = "parse" /\ raised = "none"
  /\ \E k \in 1..Len(options_found) :
       /\ options_found' = [options_found EXCEPT ![k].shortopt = 122,
                                                 ![k].longopt = S_z,
                                                 ![k].help = S_z]
       /\ options' = [j \in 1..Len(options) |->
                        IF \/ options[j].shortopt = options_found[k].shortopt
                           \/ options[j].longopt = options_found[k].longopt
                          THEN [options[j] EXCEPT !.shortopt = 122, !.longopt = S_z,
                                                  !.help = S_z]
                          ELSE options[j]]
  /\ called' = "modify"
  /\ outcome' = NoOutcome
  /\ UNCHANGED <<argv, raised, store>>

\* The caller assigns to the fields of an option of the list parse has just
\* returned: shortopt = 'z', longopt = "z", help = "z"
Modify ==
  /\ called = "parse" /\ raised = "none"
  /\ \E k \in 1..Len(options_found) :
       options_found' = [options_found EXCEPT ![k].shortopt = 122,
                                              ![k].longopt = S_z,
                                              ![k].help = S_z]
  /\ called' = "modify"
  /\ outcome' = NoOutcome
  /\ UNCHANGED <<options, argv, raised, store>>

NextList == add \/ Parse \/ Modify

SpecList == InitList /\ [][NextList]_vars

-----------------------------------------------------------------------------
\* Properties

\* The tokens "-", "--", "-a", ... by name
T_dashdash == <<Dash, Dash>>
T_a == <<Dash, 97>>
T_ab == <<Dash, 97, 98>>
T_a9 == <<Dash, 97, 57>>
T_a_eq_value == <<Dash, 97, 61>> \o S_value
T_thing == <<Dash, Dash>> \o S_thing
T_thing_eq_value == <<Dash, Dash>> \o S_thing \o <<61>> \o S_value
T_invalid == <<Dash, 255>>

\* parse has returned a list for the current registry and argument vector
Parsed == called = "parse" /\ raised = "none"

\* The indices 1..argc-1 of the tokens of av that are exactly "--"
DashDashAt(av) == {k \in 1..(Len(av) - 1) : av[k + 1] = T_dashdash}

\* The options of a list found at index i, in the order of the list
OccurrencesAt(found, i) == SelectSeq(found, LAMBDA o : o.index = i)

\* The short, long and help fields of the options of a list
Fields(found) ==
  [k \in 1..Len(found) |-> <<found[k].shortopt, found[k].longopt, found[k].help>>]

\* C1: when k is the smallest index >= 1 whose token is exactly "--", the
\* list parse returns holds no option whose index is k or more.
C1_StopsAtDashDash ==
  (Parsed /\ DashDashAt(argv) # {}) =>
    \A j \in 1..Len(options_found) : options_found[j].index < Min(DashDashAt(argv))

\* "--" is followed by a token that looks like an option, and a token before
\* it gave an option or none was there
C1_Witness ==
  /\ Parsed
  /\ Len(argv) = 3 /\ argv[2] = T_dashdash /\ argv[3] \in {T_a, T_thing}
  /\ options_found = <<>>

\* C2: no option of the returned list comes from argv[0]: every index lies
\* in 1..argc-1, and the list is empty (and nothing is raised) when argc is
\* 0 or 1.
C2_NeverTheCommand ==
  called = "parse" =>
    /\ \A j \in 1..Len(options_found) : options_found[j].index \in 1..(Len(argv) - 1)
    /\ Len(argv) <= 1 => (options_found = <<>> /\ raised = "none")

\* argv[0] looks like an option, and the token after it gave an option
C2_Witness ==
  /\ Parsed
  /\ Len(argv) = 2 /\ argv[1] = DashCommand /\ argv[2] = T_a
  /\ Len(options_found) = 1 /\ options_found[1].index = 1

\* C3: with no declared options, the single token "-a=value" gives exactly
\* one option, with shortopt 'a', an empty longopt, the index of the token and
\* an arg that converts to the string "value".
C3_ShortEqualsValue ==
  (Parsed /\ options = <<>> /\ argv = <<S_somecode, T_a_eq_value>>) =>
    /\ Len(options_found) = 1
    /\ options_found[1].shortopt = 97
    /\ options_found[1].longopt = <<>>
    /\ options_found[1].index = 1
    /\ get(options_found[1].arg, "string", usage(options_found[1])).kind = "value"
    /\ get(options_found[1].arg, "string", usage(options_found[1])).val = S_value

\* C4: the single token "--thing=value" gives exactly one option with longopt
\* "thing", shortopt 0 and an arg that converts to the string "value".
C4_LongEqualsValue ==
  (Parsed /\ argv = <<S_somecode, T_thing_eq_value>>) =>
    /\ Len(options_found) = 1
    /\ options_found[1].shortopt = 0
    /\ options_found[1].longopt = S_thing
    /\ get(options_found[1].arg, "string", usage(options_found[1])).kind = "value"
    /\ get(options_found[1].arg, "string", usage(options_found[1])).val = S_value

\* The integer lexeme at the head of a payload: optional white space, an
\* optional sign and at least one digit; the position after it, 0 if the
\* payload starts with no such lexeme
LexemeEnd(s) ==
  LET first == Min({k \in 1..(Len(s) + 1) : k > Len(s) \/ ~isspace(s[k])})
      start == IF first <= Len(s) /\ IsSign(s[first]) THEN first + 1 ELSE first
      stop == Min({k \in start..(Len(s) + 1) : k > Len(s) \/ ~isdigit(s[k])})
  IN IF stop > start THEN stop ELSE 0

\* C5: for a non-empty payload that starts with an integer lexeme, the
\* conversion to int fails when a character that is not white space remains
\* after the lexeme, and succeeds when only white space remains.
C5_IntTrailingContent ==
  (called = "get" /\ outcome.T = "int" /\ store.value # <<>> /\ LexemeEnd(store.value) > 0) =>
    LET rest == SubSeq(store.value, LexemeEnd(store.value), Len(store.value))
    IN IF \E k \in 1..Len(rest) : ~isspace(rest[k])
         THEN outcome.r.kind # "value"
         ELSE outcome.r.kind = "value"

C7_ParseNeverFails ==
  called = "parse" => raised = "none"

\* The code points of a short-option token whose bytes after '-' are valid
\* UTF-8, <<>> for any other token
CodePoints(tok) ==
  IF Classify(tok) = "short" /\ Utf8Decode(Tail(tok), <<>>, "error").ok
    THEN Utf8Decode(Tail(tok), <<>>, "error").str
    ELSE <<>>

\* The tokens at the indices parse looks at: those before the first "--"
Scanned(av) ==
  {i \in 1..(Len(av) - 1) : \A k \in DashDashAt(av) : i < k}

RECURSIVE Characters(_)
Characters(bytes) ==
  IF bytes = <<>> THEN <<>>
  ELSE <<SubSeq(bytes, 1, Utf8Len(bytes[1]))>>
       \o Characters(SubSeq(bytes, Utf8Len(bytes[1]) + 1, Len(bytes)))

\* The argument vector with the short-option token at index i given as
\* separate tokens, "-c" for each of its characters c
Separately(av, i) ==
  SubSeq(av, 1, i)
  \o [k \in 1..Len(Characters(Tail(av[i + 1]))) |-> <<Dash>> \o Characters(Tail(av[i + 1]))[k]]
  \o SubSeq(av, i + 2, Len(av))

\* Every short-option token of the vector is valid UTF-8
ValidUtf8(av) ==
  \A i \in 1..(Len(av) - 1) : Classify(av[i + 1]) = "short" => CodePoints(av[i + 1]) # <<>>

\* C9 as claimed: for every short-option token, the options found (shortopt,
\* longopt and help, in order) are those found when the characters of the
\* token are given as separate tokens in its place.
C9_CombinedIsSeparate ==
  (Parsed /\ ValidUtf8(argv)) =>
    \A i \in Scanned(argv) :
      CodePoints(argv[i + 1]) # <<>> =>
        Fields(options_found) = Fields(parse(options, Separately(argv, i), "error").options_found)

\* C9 amended: the same, for the tokens none of whose characters is a digit
\* or '-'.
C9_CombinedIsSeparateNoDigit ==
  (Parsed /\ ValidUtf8(argv)) =>
    \A i \in Scanned(argv) :
      (/\ CodePoints(argv[i + 1]) # <<>>
       /\ \A k \in 1..Len(CodePoints(argv[i + 1])) :
            ~isdigit(CodePoints(argv[i + 1])[k]) /\ CodePoints(argv[i + 1])[k] # Dash) =>
        Fields(options_found) = Fields(parse(options, Separately(argv, i), "error").options_found)

\* "-ab" was parsed with a registry that declares 'a', and a token follows
C9_Witness ==
  /\ Parsed
  /\ Len(argv) = 3 /\ argv[2] = T_ab /\ argv[3] = T_thing
  /\ Len(options) > 0 /\ options[1].shortopt = 97
  /\ Len(options_found) = 3
  /\ options_found[1].longopt = options[1].longopt

FieldsOf(o) == <<o.shortopt, o.longopt, o.help>>

\* The positions in the registry of the options declared with the long name,
\* and of those declared with the short character
DeclaredLong(opts, name) == {k \in 1..Len(opts) : opts[k].longopt = name}
DeclaredShort(opts, c) == {k \in 1..Len(opts) : opts[k].shortopt = c}

\* The name scanned from a long-option token
LongName(tok) == SubSeq(tok, 3, Len(tok))

\* C11: when one or more declared options have the scanned long name, or
\* the scanned short character, the option found carries shortopt, longopt
\* and help of the one declared first, whether the registry comes from the
\* constructor's list, from add, or from both.
C11_FirstMatchWins ==
  Parsed =>
    \A i \in Scanned(argv) :
      /\ (Classify(argv[i + 1]) = "long" /\ DeclaredLong(options, LongName(argv[i + 1])) # {}) =>
           Fields(OccurrencesAt(options_found, i)) =
             <<FieldsOf(options[Min(DeclaredLong(options, LongName(argv[i + 1])))])>>
      /\ \A j \in 1..Len(CodePoints(argv[i + 1])) :
           DeclaredShort(options, CodePoints(argv[i + 1])[j]) # {} =>
             /\ Len(OccurrencesAt(options_found, i)) >= j
             /\ Fields(OccurrencesAt(options_found, i))[j] =
                  FieldsOf(options[Min(DeclaredShort(options, CodePoints(argv[i + 1])[j]))])

\* Two options declared with the short character 'a' and different help
\* texts, and "-a" gave the first
C11_Witness ==
  /\ Parsed
  /\ Len(options) = 2
  /\ options[1].shortopt = 97 /\ options[2].shortopt = 97
  /\ options[1].help # options[2].help
  /\ argv = <<S_somecode, T_a>>
  /\ Fields(options_found) = <<FieldsOf(options[1])>>

\* The UTF-8 bytes of a code point
Utf8Bytes(c) ==
  IF c < 128 THEN <<c>>
  ELSE IF c < 2048 THEN <<192 + (c \div 64), 128 + (c % 64)>>
  ELSE IF c < 65536
    THEN <<224 + (c \div 4096), 128 + ((c \div 64) % 64), 128 + (c % 64)>>
  ELSE <<240 + (c \div 262144), 128 + ((c \div 4096) % 64),
         128 + ((c \div 64) % 64), 128 + (c % 64)>>

\* The UTF-8 text of a sequence of code points
RECURSIVE Utf8Text(_)
Utf8Text(cps) == IF cps = <<>> THEN <<>> ELSE Utf8Bytes(Head(cps)) \o Utf8Text(Tail(cps))

\* The declared options with a short character and a long name that are the
\* first match for both
BothForms(opts) ==
  {k \in 1..Len(opts) :
     /\ opts[k].shortopt # 0 /\ opts[k].longopt # <<>>
     /\ Min(DeclaredShort(opts, opts[k].shortopt)) = k
     /\ Min(DeclaredLong(opts, opts[k].longopt)) = k}

\* The tokens "-s" and "--l" of the declared option k each give one option,
\* with the fields of the declared one
MatchedByBothForms(k) ==
  \A i \in Scanned(argv) :
    (\/ argv[i + 1] = <<Dash>> \o Utf8Bytes(options[k].shortopt)
     \/ argv[i + 1] = <<Dash, Dash>> \o options[k].longopt) =>
      Fields(OccurrencesAt(options_found, i)) = <<FieldsOf(options[k])>>

\* C12 as claimed: a declared option (s, l, h) with a short character and a
\* long name, first match for both, is found by "-s" and by "--l" with the
\* same shortopt s, longopt l and help h.
C12_BothFormsMatch ==
  Parsed => \A k \in BothForms(options) : MatchedByBothForms(k)

\* C12 amended: the same, for the declared options whose short character is
\* neither a digit nor '-'.
C12_BothFormsMatchNoDigit ==
  Parsed =>
    \A k \in BothForms(options) :
      (~isdigit(options[k].shortopt) /\ options[k].shortopt # Dash) => MatchedByBothForms(k)

\* {'a', "thing", "h"} is declared first, and "-a" and "--thing" gave the
\* same three fields
C12_Witness ==
  /\ Parsed
  /\ Len(options) > 0 /\ options[1] = Option(97, S_thing, <<104>>, -1)
  /\ argv = <<S_somecode, T_a, T_thing>>
  /\ Fields(options_found) = <<FieldsOf(options[1]), FieldsOf(options[1])>>

T_9 == <<Dash, 57>>
T_9a == <<Dash, 57, 97>>

\* The short options of the options of a list found at index i
ShortoptsAt(found, i) ==
  [k \in 1..Len(OccurrencesAt(found, i)) |-> OccurrencesAt(found, i)[k].shortopt]

\* C13: a token whose character after the leading '-' is a digit gives no
\* option at all, whatever follows the digit; a digit further on does not
\* make the token skipped: "-a9" gives two options, 'a' then '9'.
C13_DigitAfterDashOnly ==
  Parsed =>
    \A i \in Scanned(argv) :
      /\ (CharAt(argv[i + 1], 0) = Dash /\ isdigit(CharAt(argv[i + 1], 1))) =>
           OccurrencesAt(options_found, i) = <<>>
      /\ argv[i + 1] = T_a9 => ShortoptsAt(options_found, i) = <<97, 57>>

\* "-9" and "-9a" gave nothing and "-a9" gave 'a' and '9', the '9' being
\* the declared option {'9', "value", "d"}
C13_Witness ==
  /\ Parsed
  /\ argv \in {<<S_somecode, T_9, T_a9>>, <<S_somecode, T_9a, T_a9>>}
  /\ Len(options) > 0 /\ options[1].shortopt = 57
  /\ Len(options_found) = 2
  /\ options_found[1].shortopt = 97 /\ options_found[1].index = 2
  /\ FieldsOf(options_found[2]) = FieldsOf(options[1]) /\ options_found[2].index = 2

T_dash == <<Dash>>

\* The token does not start with '-', or is exactly "-"
Plain(tok) == CharAt(tok, 0) # Dash \/ tok = T_dash

\* The token is a long option, or a short-option token of valid UTF-8
FlagLike(tok) ==
  /\ CharAt(tok, 0) = Dash /\ CharAt(tok, 1) # NUL /\ ~isdigit(CharAt(tok, 1))
  /\ tok # T_dashdash
  /\ CharAt(tok, 1) # Dash => CodePoints(tok) # <<>>

\* C14: a token that does not start with '-' and the token "-" give no
\* option; in a vector made of such tokens and of flag-like ones parse raises
\* nothing, and every flag-like token gives an option, those that come after
\* such a token included.
C14_PlainTokensSkipped ==
  (called = "parse" /\ \A i \in 1..(Len(argv) - 1) : Plain(argv[i + 1]) \/ FlagLike(argv[i + 1])) =>
    /\ raised = "none"
    /\ \A i \in 1..(Len(argv) - 1) :
         IF Plain(argv[i + 1])
           THEN OccurrencesAt(options_found, i) = <<>>
           ELSE OccurrencesAt(options_found, i) # <<>>

\* "value" or "-" came first and the "--thing" after it gave an option
C14_Witness ==
  /\ Parsed
  /\ Len(argv) = 3 /\ argv[2] \in {S_value, T_dash} /\ argv[3] = T_thing
  /\ Len(options_found) = 1
  /\ options_found[1].longopt = S_thing /\ options_found[1].index = 2

\* '-' followed by U+5927 and U+5BB6, the first two characters of the CJK
\* text: six bytes
T_cjk2 == <<Dash>> \o SubSeq(S_cjk, 1, 6)

\* The number of characters of UTF-8 text: the bytes that are not
\* continuation bytes
CountCharacters(bytes) == Cardinality({k \in 1..Len(bytes) : bytes[k] \notin 128..191})

C16_ErrorNamesKindTypeUsage ==
  (called = "get arg" /\ outcome.r.kind # "value") =>
    /\ outcome.r.type = outcome.T
    /\ outcome.r.usage = usage(options_found[outcome.of])
    /\ IF options_found[outcome.of].arg.value = <<>>
         THEN outcome.r.kind = "Missing argument" /\ outcome.r.raw = <<>>
         ELSE /\ outcome.r.kind = "Invalid argument"
              /\ outcome.r.raw = options_found[outcome.of].arg.value

\* The declared {'a', "thing", "h"} was found with "-a" as its arg, and the
\* conversion of the arg to int failed
C16_Witness ==
  /\ called = "get arg"
  /\ argv = <<S_somecode, T_thing, T_a>>
  /\ outcome.of = 1 /\ outcome.T = "int"
  /\ FieldsOf(options_found[1]) = <<97, S_thing, <<104>>>>
  /\ outcome.r.kind = "Invalid argument" /\ outcome.r.raw = T_a
  /\ outcome.r.usage = <<Dash, 97, 44, 32, Dash, Dash>> \o S_thing \o <<9, 9, 104>>

\* C17: the conversion of a non-empty payload to string returns the payload
\* byte for byte, white space and multi-byte UTF-8 text included.
C17_StringIsIdentity ==
  (called = "get" /\ outcome.T = "string" /\ store.value # <<>>) =>
    outcome.r.kind = "value" /\ outcome.r.val = store.value

\* The CJK text, and a payload that starts and ends with white space, were
\* returned as they are
C17_Witness ==
  /\ called = "get" /\ outcome.T = "string"
  /\ store.value \in {S_cjk, <<32, 52, 10>>}
  /\ outcome.r.val = store.value

\* A decimal integer literal: digits, or '-' and digits
IsDigits(s) == s # <<>> /\ \A k \in 1..Len(s) : isdigit(s[k])
IsIntLiteral(s) == IsDigits(s) \/ (Len(s) >= 2 /\ s[1] = 45 /\ IsDigits(Tail(s)))

\* The digits of a literal
LiteralDigits(s) == IF s[1] = 45 THEN Tail(s) ELSE s

\* The number of digits d is at most that of digits b of the same or a
\* greater length
LeqDigits(d, b) ==
  \/ Len(d) < Len(b)
  \/ /\ Len(d) = Len(b)
     /\ \/ d = b
        \/ \E k \in 1..Len(d) : d[k] < b[k] /\ \A j \in 1..(k - 1) : d[j] = b[j]

\* The literal lies between -2147483648 and 2147483647
InIntRange(s) ==
  IF s[1] = 45 THEN LeqDigits(Tail(s), Tail(S_intmin)) ELSE LeqDigits(s, S_intmax)

\* Minus the number written by digits
RECURSIVE MinusNumber(_)
MinusNumber(d) ==
  IF d = <<>> THEN 0
  ELSE MinusNumber(SubSeq(d, 1, Len(d) - 1)) * 10 - (d[Len(d)] - 48)

\* The integer a literal within the int range writes
LiteralValue(s) ==
  IF s[1] = 45 THEN MinusNumber(Tail(s)) ELSE 0 - MinusNumber(s)

\* C18: a payload that is a decimal integer literal within the int range
\* converts to int as the integer it writes and to string as its text; a
\* payload with no integer prefix fails to convert to int.
C18_IntLiteral ==
  (called = "get" /\ store.value # <<>>) =>
    /\ (IsIntLiteral(store.value) /\ InIntRange(store.value) /\ outcome.T = "int") =>
         outcome.r.kind = "value" /\ outcome.r.val = LiteralValue(store.value)
    /\ (IsIntLiteral(store.value) /\ InIntRange(store.value) /\ outcome.T = "string") =>
         outcome.r.kind = "value" /\ outcome.r.val = store.value
    /\ (LexemeEnd(store.value) = 0 /\ outcome.T = "int") => outcome.r.kind # "value"

\* "42" gave the int 42
C18_Witness ==
  /\ called = "get" /\ outcome.T = "int"
  /\ store.value = S_42
  /\ outcome.r.kind = "value" /\ outcome.r.val = 42

\* A cell newly constructed with the payload and the handler of the cell
FreshCell == StringStore(store.value, store.handler)

C22_MissingValueDistinct ==
  (called = "get" /\ store.handler \in {"none", "returns"}) =>
    /\ outcome.r.kind # "none"
    /\ store.value = <<>> =>
         /\ outcome.r.kind \notin {"value", "could not convert"}
         /\ outcome.r.type = outcome.T
    /\ (store.value # <<>> /\ outcome.r.kind # "value") =>
         /\ outcome.r.kind = "could not convert"
         /\ outcome.r.raw = store.value
         /\ outcome.r.type = outcome.T

\* What the token at index i is expected to give: for a long option its
\* index and name, for a short-option token its index and each of its
\* characters in order, for any other token nothing
Expected(av, i) ==
  IF Classify(av[i + 1]) = "long"
    THEN <<[index |-> i, short |-> FALSE, name |-> LongName(av[i + 1]), c |-> 0]>>
    ELSE [j \in 1..Len(CodePoints(av[i + 1])) |->
            [index |-> i, short |-> TRUE, name |-> <<>>, c |-> CodePoints(av[i + 1])[j]]]

\* The walk of the vector from left to right, index i on, up to the first
\* "--"
RECURSIVE Walk(_, _)
Walk(av, i) ==
  IF i >= Len(av) \/ av[i + 1] = T_dashdash THEN <<>>
  ELSE Expected(av, i) \o Walk(av, i + 1)

\* C23: the list returned follows the walk of the vector from left to
\* right: the indices never decrease along it, and its options are those of
\* the walk, one for one and in the same order, none left out, none twice.
C23_ScanOrder ==
  (Parsed /\ ValidUtf8(argv)) =>
    /\ \A j \in 1..Len(options_found) : \A k \in j..Len(options_found) :
         options_found[j].index <= options_found[k].index
    /\ \A walk \in {Walk(argv, 1)} :
         /\ Len(options_found) = Len(walk)
         /\ \A k \in 1..Len(options_found) :
              /\ options_found[k].index = walk[k].index
              /\ IF walk[k].short
                   THEN options_found[k].shortopt = walk[k].c
                   ELSE options_found[k].longopt = walk[k].name

\* "--thing" and then "-ab" gave "thing" at index 1 and 'a', 'b' at index 2
C23_Witness ==
  /\ Parsed
  /\ argv = <<S_somecode, T_thing, T_ab>>
  /\ [k \in 1..Len(options_found) |-> options_found[k].index] = <<1, 2, 2>>
  /\ options_found[1].longopt = S_thing
  /\ options_found[2].shortopt = 97 /\ options_found[3].shortopt = 98

T_eacute == <<Dash, 195, 169>>

\* The line for an option: '-' and the short character as text when it is
\* set, ", " when the long name is set too, "--" and the long name when it is
\* not empty, two tabs and the help when it is not empty
Rendering(o) ==
  (IF o.shortopt # 0
     THEN <<Dash>> \o Utf8Bytes(o.shortopt)
          \o (IF o.longopt # <<>> THEN <<44, 32>> ELSE <<>>)
     ELSE <<>>)
  \o (IF o.longopt # <<>> THEN <<Dash, Dash>> \o o.longopt ELSE <<>>)
  \o (IF o.help # <<>> THEN <<9, 9>> \o o.help ELSE <<>>)

\* C24: the usage in the error raised for the arg of an option is the line
\* for that option, with the short character of the option after '-',
\* whatever its code point.
C24_UsageRendersOption ==
  (called = "get arg" /\ outcome.r.kind \in {"Missing argument", "Invalid argument"}) =>
    outcome.r.usage = Rendering(options_found[outcome.of])

T_b == <<Dash, 98>>

\* The args of the options of a list, as text
Args(found) == [k \in 1..Len(found) |-> found[k].arg.value]

\* C25: the entry attached as arg to the options of the token at index i is
\* still looked at as the token at index i + 1: it gives the options it
\* gives anywhere else, and when it is "--" the scan stops there. So
\* "-a" "-b" gives 'a' with arg "-b" and 'b' with no arg, and "-a" "--" gives
\* 'a' with arg "--" alone.
C25_AttachDoesNotConsume ==
  (Parsed /\ ValidUtf8(argv)) =>
    /\ \A i \in Scanned(argv) :
         (OccurrencesAt(options_found, i) # <<>> /\ i < Len(argv) - 1) =>
           /\ \A k \in 1..Len(OccurrencesAt(options_found, i)) :
                OccurrencesAt(options_found, i)[k].arg.value = argv[i + 2]
           /\ IF argv[i + 2] = T_dashdash
                THEN \A j \in 1..Len(options_found) : options_found[j].index <= i
                ELSE ShortoptsAt(options_found, i + 1) =
                       ShortoptsAt(parse(options, <<argv[1], argv[i + 2]>>, "error").options_found, 1)
    /\ argv = <<S_somecode, T_a, T_b>> =>
         /\ ShortoptsAt(options_found, 1) = <<97>> /\ ShortoptsAt(options_found, 2) = <<98>>
         /\ Args(options_found) = <<T_b, <<>>>>
    /\ argv = <<S_somecode, T_a, T_dashdash>> =>
         /\ ShortoptsAt(options_found, 1) = <<97>>
         /\ Args(options_found) = <<T_dashdash>>

\* "-a" "-b" gave 'a' with arg "-b" and 'b' with no arg
C25_Witness ==
  /\ Parsed
  /\ argv = <<S_somecode, T_a, T_b>>
  /\ Len(options_found) = 2
  /\ options_found[1].shortopt = 97 /\ options_found[1].arg.value = T_b
  /\ options_found[2].shortopt = 98 /\ options_found[2].arg.value = <<>>

\* The option with the arg parse attaches to it when the vector is cut after
\* its token, so that the token is the last
AsLast(o) == AttachArg(o, ArgValue(SubSeq(argv, 1, o.index + 1), o.index))

\* C26: when the entry after the token of an option is the empty string,
\* the conversion of the arg of the option to int, double and string fails
\* with "Missing argument", the error it gives when the token is the last of
\* the vector.
C26_EmptyNextIsAbsent ==
  (/\ called = "get arg"
   /\ options_found[outcome.of].index < Len(argv) - 1
   /\ argv[options_found[outcome.of].index + 2] = <<>>) =>
    /\ outcome.r.kind = "Missing argument"
    /\ outcome.r = get(AsLast(options_found[outcome.of]).arg, outcome.T,
                       usage(AsLast(options_found[outcome.of])))

\* "-ab" was followed by "", and the arg of 'b' was converted to double
C26_Witness ==
  /\ called = "get arg"
  /\ argv = <<S_somecode, T_ab, <<>>>>
  /\ outcome.of = 2 /\ outcome.T = "double"
  /\ options_found[2].shortopt = 98
  /\ outcome.r.kind = "Missing argument"

====
